---- MODULE Spec2Model ----
(***************************************************************************)
(* A model of source/runner/templates/githubIssueTemplate.ts: the two      *)
(* templates that turn a DangerResults value into a GitHub comment body,   *)
(* and the helpers they are built from.                                    *)
(*                                                                         *)
(* Values.  A JavaScript string is a TLA+ string.  A value that may be     *)
(* undefined (an optional field, an optional argument) is a tuple: <<>> is *)
(* undefined and <<v>> is the value v.  The result of a call is a record   *)
(* [ok, val]: ok = TRUE with the returned value, or ok = FALSE when the    *)
(* call ends in an uncaught TypeError.                                     *)
(*                                                                         *)
(* The lexer of TLA+ rejects the character U+0060 (the backtick) inside a  *)
(* string literal.  The form feed character, which occurs in none of the   *)
(* template's fixed text, stands for it everywhere: see Backtick.          *)
(***************************************************************************)
EXTENDS Integers, Sequences, FiniteSets, TLC

VARIABLES results, msg, call, ret

vars == <<results, msg, call, ret>>

-----------------------------------------------------------------------------
(* Bounds of the model.                                                    *)

\* The longest violation list placed in a category of the results.
MaxList == 2

\* The longest message handed to truncate on its own.
MaxMsgLen == 22

-----------------------------------------------------------------------------
(* JavaScript values.                                                      *)

Undefined == <<>>

Some(v) == <<v>>

Ok(v) == [ok |-> TRUE, val |-> v]

Throw == [ok |-> FALSE, val |-> "TypeError"]

Backtick == "\f"

\* String(n) for a non-negative integer n, as a template literal prints it.
RECURSIVE NumberToString(_)
NumberToString(n) ==
    IF n < 10
    THEN SubSeq("0123456789", n + 1, n + 1)
    ELSE NumberToString(n \div 10) \o SubSeq("0123456789", (n % 10) + 1, (n % 10) + 1)

\* `${x}` for an optional string: undefined prints as the text "undefined".
Interpolate(x) == IF x = Undefined THEN "undefined" ELSE x[1]

\* `${x}` for an optional number.
InterpolateNumber(x) == IF x = Undefined THEN "undefined" ELSE NumberToString(x[1])

\* !x for an optional string: undefined and "" are falsy.
Falsy(x) == x = Undefined \/ x[1] = ""

\* Array.prototype.join: an undefined element joins as the empty string.
RECURSIVE Join(_, _)
Join(strs, sep) ==
    IF Len(strs) = 0 THEN ""
    ELSE IF Len(strs) = 1 THEN strs[1]
    ELSE strs[1] \o sep \o Join(Tail(strs), sep)

JoinElement(x) == IF x = Undefined THEN "" ELSE x[1]

-----------------------------------------------------------------------------
(* dsl/Violation: the predicate the template imports.                      *)

isInline(violation) == violation.file # Undefined /\ violation.line # Undefined

-----------------------------------------------------------------------------
(* githubIssueTemplate.ts                                                  *)

\* The character class without the asterisk.
MarkdownChars_noAsterisk == {Backtick, "_", "~", "["}

\* The character class without the opening bracket.
MarkdownChars_noBracket == {Backtick, "*", "_", "~"}

\* message.match(/[`*_~\[]+/g) ? true : false.  Reading .match of undefined
\* is a TypeError.
MarkdownChars == {Backtick, "*", "_", "~", "["}

HasMarkdownChar(s) == \E i \in 1..Len(s) : SubSeq(s, i, i) \in MarkdownChars

containsMarkdown(message) ==
    IF message = Undefined THEN Throw ELSE Ok(HasMarkdownChar(message[1]))

noViolationsOrAllOfThemEmpty(violations) ==
    Len(violations) = 0 \/ \A i \in 1..Len(violations) : Falsy(violations[i].message)

\* violation.icon || emojiString
IconOrEmoji(defaultEmoji, violation) ==
    IF Falsy(violation.icon) THEN ":" \o defaultEmoji \o ":" ELSE violation.icon[1]

\* The message before wrapping: a template literal for an inline violation
\* (always a string), the message itself (possibly undefined) otherwise.
RowMessage(violation) ==
    IF isInline(violation)
    THEN Some("**" \o Interpolate(violation.file) \o "#L" \o InterpolateNumber(violation.line)
              \o "** - " \o Interpolate(violation.message))
    ELSE violation.message

WrapMarkdown(message) == "\n\n  " \o message \o "\n  "

RowHtml(icon, message) ==
    "<tr>\n      <td>" \o icon \o "</td>\n      <td>" \o message \o "</td>\n    </tr>\n  "

htmlForValidation(defaultEmoji, violation) ==
    LET message == RowMessage(violation)
        md      == containsMarkdown(message)
    IN  IF ~md.ok THEN Throw
        ELSE Ok(RowHtml(IconOrEmoji(defaultEmoji, violation),
                        IF md.val THEN WrapMarkdown(message[1]) ELSE message[1]))

TableRows(defaultEmoji, violations) ==
    [i \in 1..Len(violations) |-> htmlForValidation(defaultEmoji, violations[i])]

TableHtml(name, rows) ==
    "\n<table>\n  <thead>\n    <tr>\n      <th width=\"50\"></th>\n"
    \o "      <th width=\"100%\" data-danger-table=\"true\">" \o name \o "</th>\n"
    \o "    </tr>\n  </thead>\n  <tbody>" \o Join(rows, "\n") \o "</tbody>\n</table>\n"

\* table with the violations of falsy message left out of the rows.
table_skipsEmptyMessages(name, defaultEmoji, violations) ==
    IF noViolationsOrAllOfThemEmpty(violations) THEN Ok("")
    ELSE LET shown == SelectSeq(violations, LAMBDA v : ~Falsy(v.message))
             rows  == TableRows(defaultEmoji, shown)
         IN  IF \E i \in 1..Len(rows) : ~rows[i].ok THEN Throw
             ELSE Ok(TableHtml(name, [i \in 1..Len(rows) |-> rows[i].val]))

table(name, defaultEmoji, violations) ==
    IF noViolationsOrAllOfThemEmpty(violations) THEN Ok("")
    ELSE LET rows == TableRows(defaultEmoji, violations)
         IN  IF \E i \in 1..Len(rows) : ~rows[i].ok THEN Throw
             ELSE Ok(TableHtml(name, [i \in 1..Len(rows) |-> rows[i].val]))

TruncateCount == 20

\* truncate keeping one character too many before the ellipsis.
truncate_keepsCountMinus2(m, count) ==
    IF Falsy(m) THEN m
    ELSE IF Len(m[1]) < count THEN m
    ELSE Some(SubSeq(m[1], 1, count - 2) \o "...")

\* truncate leaving a message of exactly count characters as it is.
truncate_keepsAtLimit(m, count) ==
    IF Falsy(m) THEN m
    ELSE IF Len(m[1]) <= count THEN m
    ELSE Some(SubSeq(m[1], 1, count - 3) \o "...")

truncate(m, count) ==
    IF Falsy(m) THEN m
    ELSE IF Len(m[1]) < count THEN m
    ELSE Some(SubSeq(m[1], 1, count - 3) \o "...")

\* The reduce of getSummary, from the left: acc is the text so far and idx
\* the 1-based position of the next value.
RECURSIVE SummaryReduce(_, _, _)
SummaryReduce(acc, values, idx) ==
    IF idx > Len(values) THEN acc
    ELSE SummaryReduce(acc \o " " \o Interpolate(values[idx])
                           \o (IF idx = Len(values) THEN "" ELSE ","),
                       values, idx + 1)

\* getSummary with a comma after every message, the last one too.
getSummary_commaAfterEach(label, violations) ==
    NumberToString(Len(violations)) \o " " \o label \o ": "
    \o Join([i \in 1..Len(violations) |->
                " " \o Interpolate(truncate(violations[i].message, TruncateCount)) \o ","], "")

getSummary(label, violations) ==
    SummaryReduce(NumberToString(Len(violations)) \o " " \o label \o ": ",
                  [i \in 1..Len(violations) |-> truncate(violations[i].message, TruncateCount)],
                  1)

dangerIDToString(id) == "DangerID: danger-id-" \o id \o ";"

fileLineToString(file, line) ==
    "  File: " \o file \o ";\n  Line: " \o NumberToString(line) \o ";"

buildSummaryMessage(dangerID, res) ==
    "  " \o getSummary("failure", res.fails) \o "\n"
    \o "  " \o getSummary("warning", res.warnings) \o "\n"
    \o "  " \o (IF Len(res.messages) > 0
                THEN NumberToString(Len(res.messages)) \o " messages" ELSE "") \o "\n"
    \o "  " \o (IF Len(res.markdowns) > 0
                THEN NumberToString(Len(res.markdowns)) \o " markdown notices" ELSE "") \o "\n"
    \o "  " \o dangerIDToString(dangerID)

DefaultMeta == [runtimeName |-> Some("dangerJS"), runtimeHref |-> Some("https://danger.systems/js")]

\* dangerSignature falling back to the default for each field meta lacks.
dangerSignature_defaultPerField(res) ==
    LET meta == IF res.meta = Undefined THEN DefaultMeta ELSE res.meta[1]
        href == IF meta.runtimeHref = Undefined THEN DefaultMeta.runtimeHref
                ELSE meta.runtimeHref
        name == IF meta.runtimeName = Undefined THEN DefaultMeta.runtimeName
                ELSE meta.runtimeName
    IN  "Generated by :no_entry_sign: <a href=\"" \o href[1] \o "\">" \o name[1] \o "</a>"

dangerSignature(res) ==
    LET meta == IF res.meta = Undefined THEN DefaultMeta ELSE res.meta[1]
    IN  "Generated by :no_entry_sign: <a href=\"" \o Interpolate(meta.runtimeHref) \o "\">"
        \o Interpolate(meta.runtimeName) \o "</a>"

dangerSignaturePostfix(res, commitID) ==
    IF commitID # Undefined
    THEN dangerSignature(res) \o " against " \o commitID[1]
    ELSE dangerSignature(res)

MarkdownsText(res) ==
    Join([i \in 1..Len(res.markdowns) |-> JoinElement(res.markdowns[i].message)], "\n\n")

template(dangerID, res, commitID) ==
    LET fails    == table("Fails", "no_entry_sign", res.fails)
        warnings == table("Warnings", "warning", res.warnings)
        messages == table("Messages", "book", res.messages)
    IN  IF ~fails.ok \/ ~warnings.ok \/ ~messages.ok THEN Throw
        ELSE Ok("\n<!--\n" \o buildSummaryMessage(dangerID, res) \o "\n-->\n"
                \o fails.val \o "\n" \o warnings.val \o "\n" \o messages.val \o "\n"
                \o MarkdownsText(res) \o "\n<p align=\"right\">\n  "
                \o dangerSignaturePostfix(res, commitID) \o "\n</p>\n")

printViolation(defaultEmoji, violation) ==
    "- " \o IconOrEmoji(defaultEmoji, violation) \o " " \o Interpolate(violation.message)

Bullets(defaultEmoji, violations) ==
    Join([i \in 1..Len(violations) |-> printViolation(defaultEmoji, violations[i])], "\n")

inlineTemplate(dangerID, res, file, line) ==
    "\n<!--\n" \o buildSummaryMessage(dangerID, res) \o "\n" \o fileLineToString(file, line)
    \o "\n-->\n" \o Bullets("no_entry_sign", res.fails) \o "\n" \o Bullets("warning", res.warnings)
    \o "\n" \o Bullets("book", res.messages) \o "\n" \o MarkdownsText(res) \o "\n  "

-----------------------------------------------------------------------------
(* The inputs the model draws.                                             *)

Violation(message, file, line, icon) ==
    [message |-> message, file |-> file, line |-> line, icon |-> icon]

BacktickMessage == "use " \o Backtick \o "x" \o Backtick \o " instead"

LongMessage == "abcdefghijklmnopqrstuvw"

Violations ==
    { Violation(Some("bad"), Undefined, Undefined, Undefined),
      Violation(Some("bad"), Some("a.ts"), Some(3), Undefined),
      Violation(Some(""), Undefined, Undefined, Undefined),
      Violation(Undefined, Undefined, Undefined, Undefined),
      Violation(Some(BacktickMessage), Undefined, Undefined, Some(":x:")),
      Violation(Some(LongMessage), Some("a.ts"), Undefined, Some("")),
      Violation(Undefined, Some("b.ts"), Some(12), Undefined) }

RECURSIVE ListsUpTo(_)
ListsUpTo(n) ==
    IF n = 0 THEN {<<>>}
    ELSE LET shorter == ListsUpTo(n - 1)
         IN  shorter \cup {Append(l, v) : l \in {x \in shorter : Len(x) = n - 1}, v \in Violations}

Lists == ListsUpTo(MaxList)

\* What the categories other than the chosen one hold.
OtherLists == {<<>>, <<Violation(Some("bad"), Undefined, Undefined, Undefined)>>}

Metas ==
    { Undefined,
      Some([runtimeName |-> Some("peril"), runtimeHref |-> Some("https://peril.systems")]),
      Some([runtimeName |-> Undefined, runtimeHref |-> Some("https://peril.systems")]),
      Some([runtimeName |-> Some("peril"), runtimeHref |-> Undefined]),
      Some([runtimeName |-> Undefined, runtimeHref |-> Undefined]) }

Categories == {"fails", "warnings", "messages", "markdowns"}

Tabulated == {"fails", "warnings", "messages"}

BuildIDs == {"42", "blankID"}

CommitIDs == {Undefined, Some("abc123")}

Files == {"a.ts"}

Lines == {3, 12}

DangerResults(cat, list, other, meta) ==
    [fails     |-> IF cat = "fails" THEN list ELSE other,
     warnings  |-> IF cat = "warnings" THEN list ELSE other,
     messages  |-> IF cat = "messages" THEN list ELSE other,
     markdowns |-> IF cat = "markdowns" THEN list ELSE other,
     meta      |-> meta]

EmptyResults == DangerResults("fails", <<>>, <<>>, Undefined)

\* The arguments template and inlineTemplate pass for each category.
TableName(cat) ==
    CASE cat = "fails" -> "Fails" [] cat = "warnings" -> "Warnings" [] OTHER -> "Messages"

DefaultEmoji(cat) ==
    CASE cat = "fails" -> "no_entry_sign" [] cat = "warnings" -> "warning" [] OTHER -> "book"

SummaryLabel(cat) == IF cat = "fails" THEN "failure" ELSE "warning"

NoCall == [fn |-> "none", args |-> <<>>]

-----------------------------------------------------------------------------
(* The calls on the results: each action is one call of a function of the  *)
(* module, recorded with its arguments and its outcome.                    *)

Init ==
    /\ \E cat \in Categories, list \in Lists, other \in OtherLists, meta \in Metas :
           results = DangerResults(cat, list, other, meta)
    /\ msg = Undefined
    /\ call = NoCall
    /\ ret = Ok("")

\* The functions are pure: a call reads its arguments and nothing a previous
\* call left behind, so every behaviour is one call on the drawn results.
Returns(fn, args, value) ==
    /\ call = NoCall
    /\ call' = [fn |-> fn, args |-> args]
    /\ ret' = value
    /\ UNCHANGED <<results, msg>>

CallTable ==
    \E cat \in Tabulated :
        Returns("table", <<cat>>, table(TableName(cat), DefaultEmoji(cat), results[cat]))

CallHtmlForValidation ==
    \E cat \in Tabulated : \E i \in 1..Len(results[cat]) :
        Returns("htmlForValidation", <<cat, i>>,
                htmlForValidation(DefaultEmoji(cat), results[cat][i]))

CallGetSummary ==
    \E cat \in {"fails", "warnings"} :
        Returns("getSummary", <<cat>>, Ok(getSummary(SummaryLabel(cat), results[cat])))

CallDangerSignature ==
    Returns("dangerSignature", <<>>, Ok(dangerSignature(results)))

CallDangerSignaturePostfix ==
    \E commitID \in CommitIDs :
        Returns("dangerSignaturePostfix", <<commitID>>,
                Ok(dangerSignaturePostfix(results, commitID)))

CallTemplate ==
    \E dangerID \in BuildIDs, commitID \in CommitIDs :
        Returns("template", <<dangerID, commitID>>, template(dangerID, results, commitID))

CallInlineTemplate ==
    \E dangerID \in BuildIDs, file \in Files, line \in Lines :
        Returns("inlineTemplate", <<dangerID, file, line>>,
                Ok(inlineTemplate(dangerID, results, file, line)))

\* getSummary's call of truncate on one message, and a second call on what
\* the first returned.
CallTruncate ==
    Returns("truncate", <<msg>>, Ok(truncate(msg, TruncateCount)))

CallTruncateAgain ==
    /\ call.fn = "truncate"
    /\ call' = [fn |-> "truncateAgain", args |-> call.args]
    /\ msg' = ret.val
    /\ ret' = Ok(truncate(ret.val, TruncateCount))
    /\ UNCHANGED results

Next ==
    \/ CallTruncate
    \/ CallTruncateAgain
    \/ CallTable
    \/ CallHtmlForValidation
    \/ CallGetSummary
    \/ CallDangerSignature
    \/ CallDangerSignaturePostfix
    \/ CallTemplate
    \/ CallInlineTemplate

Spec == Init /\ [][Next]_vars

-----------------------------------------------------------------------------
(* The same calls on the results that hold one violation, its message      *)
(* drawn from strings of every length up to MaxMsgLen.                     *)

Alphabet == "abcdefghijklmnopqrstuvwxyzABCDEFGH"

Marks == {Backtick, "*", "_", "~", "[", ".", "#"}

MarkPositions(len) == {1, TruncateCount - 3, TruncateCount - 2, len} \cap (1..len)

Marked(len, p, c) == SubSeq(Alphabet, 1, p - 1) \o c \o SubSeq(Alphabet, p + 1, len)

Messages ==
    {Undefined}
    \cup {Some(SubSeq(Alphabet, 1, len)) : len \in 0..MaxMsgLen}
    \cup {Some(SubSeq(Alphabet, 1, len - 3) \o "...") : len \in 3..MaxMsgLen}
    \cup UNION {{Some(Marked(len, p, c)) : p \in MarkPositions(len), c \in Marks} :
                  len \in 1..MaxMsgLen}

Locations == {<<Undefined, Undefined>>, <<Some("a.ts"), Some(3)>>}

InitMessage ==
    /\ \E m \in Messages, loc \in Locations :
           /\ msg = m
           /\ results = DangerResults("fails", <<Violation(m, loc[1], loc[2], Undefined)>>,
                                       <<>>, Undefined)
    /\ call = NoCall
    /\ ret = Ok("")

SpecMessage == InitMessage /\ [][Next]_vars

-----------------------------------------------------------------------------
(* Reading a rendered text.                                                *)

StartsWith(s, p) == Len(s) >= Len(p) /\ SubSeq(s, 1, Len(p)) = p

EndsWith(s, p) == Len(s) >= Len(p) /\ SubSeq(s, Len(s) - Len(p) + 1, Len(s)) = p

Positions(s, sub) == {i \in 1..(Len(s) - Len(sub) + 1) : SubSeq(s, i, i + Len(sub) - 1) = sub}

Contains(s, sub) == Positions(s, sub) # {}

\* A table row is RowOpen(glyph), the message cell, RowClose.
RowOpen(glyph) == "<tr>\n      <td>" \o glyph \o "</td>\n      <td>"

RowClose == "</td>\n    </tr>\n  "

IsRow(row, glyph) ==
    /\ StartsWith(row, RowOpen(glyph))
    /\ EndsWith(row, RowClose)
    /\ Len(row) >= Len(RowOpen(glyph)) + Len(RowClose)

MessageCell(row, glyph) == SubSeq(row, Len(RowOpen(glyph)) + 1, Len(row) - Len(RowClose))

RowCount(text) == Cardinality(Positions(text, "<tr>\n      <td>"))

Glyph(cat, v) ==
    IF v.icon = Undefined \/ v.icon = Some("") THEN ":" \o DefaultEmoji(cat) \o ":" ELSE v.icon[1]

Inline(v) == v.file # Undefined /\ v.line # Undefined

InlinePrefix(v) == "**" \o v.file[1] \o "#L" \o NumberToString(v.line[1]) \o "** - "

EmptyMessage(v) == v.message = Undefined \/ v.message = Some("")

AllEmpty(list) == \A i \in 1..Len(list) : EmptyMessage(list[i])

HasMarkup(text) ==
    \E i \in 1..Len(text) : SubSeq(text, i, i) \in {Backtick, "*", "_", "~", "["}

\* The text of a message cell before any wrapping.
CellText(v) ==
    IF Inline(v) THEN InlinePrefix(v) \o Interpolate(v.message) ELSE v.message[1]

\* A message as the summary line shows it.
SummaryEntry(message) ==
    IF message = Undefined THEN "undefined"
    ELSE IF Len(message[1]) < 20 THEN message[1]
    ELSE SubSeq(message[1], 1, 17) \o "..."

SummaryHead(cat, list) == NumberToString(Len(list)) \o " " \o SummaryLabel(cat) \o ": "

\* The arguments of the call a state records.
CalledList == results[call.args[1]]

CalledViolation == results[call.args[1]][call.args[2]]

DefaultSignature ==
    "Generated by :no_entry_sign: <a href=\"https://danger.systems/js\">dangerJS</a>"

-----------------------------------------------------------------------------
(* The claims.                                                             *)

\* C1: for each tabulated category and every violation list, table returns
\* the empty string if and only if the list is empty or every message in it
\* is falsy, and in every other case it returns a non-empty table.
C1_TableEmptyIffAllEmpty ==
    call.fn = "table" =>
        LET empty == Len(CalledList) = 0 \/ AllEmpty(CalledList)
        IN  /\ (ret = Ok("")) <=> empty
            /\ ~empty => ret.ok /\ ret.val # ""

\* C1, for the calls of table that return: the returned text is empty if
\* and only if the list is empty or every message in it is falsy.
C1_ReturnedTableEmptyIffAllEmpty ==
    call.fn = "table" /\ ret.ok =>
        ((ret.val = "") <=> (Len(CalledList) = 0 \/ AllEmpty(CalledList)))

\* C2 as stated: the row of an inline violation has a message cell that
\* begins with "**<file>#L<line>** - <message>", and the row of a non-inline
\* violation with the message "bad" has the message cell "bad".
C2_InlineCellBeginsWithPrefix ==
    call.fn = "htmlForValidation" =>
        LET v     == CalledViolation
            glyph == Glyph(call.args[1], v)
        IN  /\ Inline(v) =>
                /\ ret.ok
                /\ StartsWith(MessageCell(ret.val, glyph),
                              InlinePrefix(v) \o Interpolate(v.message))
            /\ ~Inline(v) /\ v.message = Some("bad") =>
                ret.ok /\ MessageCell(ret.val, glyph) = "bad"

\* C2 as amended: the message cell of an inline violation is the text
\* "**<file>#L<line>** - <message>" in the markdown wrapping, so it begins
\* with two line breaks and two spaces and then that text; the message cell
\* of a non-inline violation whose message has no markdown character is
\* the message and nothing else.
C2_InlineCellIsWrappedPrefix ==
    call.fn = "htmlForValidation" =>
        LET v     == CalledViolation
            glyph == Glyph(call.args[1], v)
        IN  /\ Inline(v) =>
                /\ ret.ok
                /\ IsRow(ret.val, glyph)
                /\ MessageCell(ret.val, glyph)
                       = "\n\n  " \o InlinePrefix(v) \o Interpolate(v.message) \o "\n  "
            /\ ~Inline(v) /\ v.message # Undefined /\ ~HasMarkup(v.message[1]) =>
                /\ ret.ok
                /\ IsRow(ret.val, glyph)
                /\ MessageCell(ret.val, glyph) = v.message[1]

C2_Witness ==
    /\ call.fn = "htmlForValidation"
    /\ Inline(CalledViolation)
    /\ CalledViolation.message = Some("bad")
    /\ ret.ok
    /\ StartsWith(MessageCell(ret.val, Glyph(call.args[1], CalledViolation)),
                  "\n\n  **a.ts#L3** - bad")

\* C3 as stated: for fails = [{message: ""}] the table is omitted and the
\* summary line reads "1 failure: ,"; every summary line starts with the
\* length of its list and the label.
C3_SummaryOfOneEmptyMessage ==
    /\ call.fn = "table" /\ Len(CalledList) = 1 /\ CalledList[1].message = Some("") =>
           ret = Ok("")
    /\ call.fn = "getSummary" =>
           /\ StartsWith(ret.val, SummaryHead(call.args[1], CalledList))
           /\ call.args[1] = "fails" /\ Len(CalledList) = 1
                  /\ CalledList[1].message = Some("") => ret.val = "1 failure: ,"

\* C3 as amended: for fails = [{message: ""}] the table is omitted and the
\* summary line reads "1 failure:  ", with no comma; every summary line is
\* the length of its list, the label and a colon, then the truncated
\* messages in list order, each after a space, with a comma between two of
\* them and none after the last.
C3_SummaryLine ==
    /\ call.fn = "table" /\ Len(CalledList) = 1 /\ CalledList[1].message = Some("") =>
           ret = Ok("")
    /\ call.fn = "getSummary" =>
           /\ ret.val = SummaryHead(call.args[1], CalledList)
                  \o Join([i \in 1..Len(CalledList) |->
                              " " \o SummaryEntry(CalledList[i].message)], ",")
           /\ call.args[1] = "fails" /\ Len(CalledList) = 1
                  /\ CalledList[1].message = Some("") => ret.val = "1 failure:  "

C3_Witness ==
    /\ call.fn = "getSummary"
    /\ call.args[1] = "fails"
    /\ Len(CalledList) = 1
    /\ CalledList[1].message = Some("")
    /\ ret.val = "1 failure:  "

\* C4: template and inlineTemplate return a string for every results value,
\* whatever message, icon or meta is missing.
C4_RenderNeverThrows ==
    call.fn \in {"template", "inlineTemplate"} => ret.ok

\* C5 as stated: the signature carries the name dangerJS and the href
\* https://danger.systems/js when meta is absent, and also when meta is
\* present without runtimeName or without runtimeHref.
C5_MalformedMetaFallsBack ==
    /\ call.fn = "dangerSignature"
    /\ \/ results.meta = Undefined
       \/ results.meta[1].runtimeName = Undefined
       \/ results.meta[1].runtimeHref = Undefined
    => ret.val = DefaultSignature

\* C5 as amended: the signature carries the default name and href exactly
\* when meta is absent; a meta that is present is used as it is, and a
\* runtimeName or runtimeHref it lacks is printed as the text "undefined".
C5_SignatureOfMeta ==
    call.fn = "dangerSignature" =>
        /\ ret.ok
        /\ IF results.meta = Undefined
           THEN ret.val = DefaultSignature
           ELSE ret.val = "Generated by :no_entry_sign: <a href=\""
                    \o (IF results.meta[1].runtimeHref = Undefined THEN "undefined"
                        ELSE results.meta[1].runtimeHref[1])
                    \o "\">"
                    \o (IF results.meta[1].runtimeName = Undefined THEN "undefined"
                        ELSE results.meta[1].runtimeName[1])
                    \o "</a>"

C5_Witness ==
    /\ call.fn = "dangerSignature"
    /\ results.meta # Undefined
    /\ results.meta[1].runtimeName = Undefined
    /\ results.meta[1].runtimeHref # Undefined
    /\ EndsWith(ret.val, "\">undefined</a>")

C7_WrappedExactlyOnMarkup ==
    /\ call.fn = "htmlForValidation"
           /\ (Inline(CalledViolation) \/ CalledViolation.message # Undefined) =>
           LET v     == CalledViolation
               glyph == Glyph(call.args[1], v)
           IN  /\ ret.ok
               /\ IsRow(ret.val, glyph)
               /\ MessageCell(ret.val, glyph)
                      = IF HasMarkup(CellText(v)) THEN "\n\n  " \o CellText(v) \o "\n  "
                        ELSE CellText(v)
    /\ call.fn = "inlineTemplate" =>
           LET bullets(cat) ==
                   Join([i \in 1..Len(results[cat]) |->
                            "- " \o Glyph(cat, results[cat][i]) \o " "
                            \o Interpolate(results[cat][i].message)], "\n")
               notes ==
                   Join([i \in 1..Len(results.markdowns) |->
                            JoinElement(results.markdowns[i].message)], "\n\n")
           IN  /\ ret.ok
               /\ EndsWith(ret.val,
                           "\n-->\n" \o bullets("fails") \o "\n" \o bullets("warnings") \o "\n"
                           \o bullets("messages") \o "\n" \o notes \o "\n  ")

C7_Witness ==
    /\ call.fn = "htmlForValidation"
    /\ ~Inline(CalledViolation)
    /\ msg # Undefined
    /\ CalledViolation.message = msg
    /\ Len(msg[1]) > 1
    /\ SubSeq(msg[1], Len(msg[1]), Len(msg[1])) = "["
    /\ ret.ok
    /\ MessageCell(ret.val, ":no_entry_sign:") = "\n\n  " \o msg[1] \o "\n  "

\* C8: for every build id and results value the issue body contains
\* "DangerID: danger-id-<buildID>;"; without a commit the signature ends in
\* "</a>" and holds no "against", and with a commit c it is the same text
\* followed by " against <c>".
C8_MarkerAndSignature ==
    /\ call.fn = "template" =>
           /\ ret.ok
           /\ Contains(ret.val, "DangerID: danger-id-" \o call.args[1] \o ";")
    /\ call.fn = "dangerSignaturePostfix" =>
           IF call.args[1] = Undefined
           THEN EndsWith(ret.val, "</a>") /\ ~Contains(ret.val, "against")
           ELSE ret.val = dangerSignaturePostfix(results, Undefined)
                              \o " against " \o call.args[1][1]

\* C8, for the calls of template that return: the body contains the marker
\* and ends with the signature paragraph.
C8_ReturnedBodyMarkerAndSignature ==
    /\ call.fn = "template" /\ ret.ok =>
           /\ Contains(ret.val, "DangerID: danger-id-" \o call.args[1] \o ";")
           /\ IF call.args[2] = Undefined
              THEN EndsWith(ret.val, "</a>\n</p>\n") /\ ~Contains(ret.val, "against")
              ELSE EndsWith(ret.val, "</a> against " \o call.args[2][1] \o "\n</p>\n")
    /\ call.fn = "dangerSignaturePostfix" =>
           IF call.args[1] = Undefined
           THEN EndsWith(ret.val, "</a>") /\ ~Contains(ret.val, "against")
           ELSE ret.val = dangerSignaturePostfix(results, Undefined)
                              \o " against " \o call.args[1][1]

\* C9: truncate(msg, 20) returns a string shorter than 20 characters as it
\* is, returns for a string longer than 20 characters its first 17
\* characters followed by "...", 20 characters in all, and returns its own
\* result unchanged when called on it again.
C9_TruncateIdempotent ==
    /\ call.fn = "truncate" /\ msg # Undefined /\ Len(msg[1]) < 20 => ret.val = msg
    /\ call.fn = "truncate" /\ msg # Undefined /\ Len(msg[1]) > 20 =>
           /\ ret.val = Some(SubSeq(msg[1], 1, 17) \o "...")
           /\ Len(ret.val[1]) = 20
    /\ call.fn = "truncateAgain" => ret.ok /\ ret.val = msg

C9_Witness ==
    /\ call.fn = "truncateAgain"
    /\ call.args[1] # Undefined
    /\ Len(call.args[1][1]) > 20
    /\ msg = Some(SubSeq(call.args[1][1], 1, 17) \o "...")
    /\ ret.val = msg

\* C10 as stated: a message of exactly 20 characters is rewritten to its
\* first 17 characters and "..."; the summary shows a message as it is only
\* when it is falsy or shorter than 20 characters; no truncated entry is
\* longer than 20 characters.
C10_VerbatimOnlyUnderLimit ==
    /\ call.fn = "truncate" /\ msg # Undefined /\ Len(msg[1]) = 20 =>
           ret.val = Some(SubSeq(msg[1], 1, 17) \o "...")
    /\ call.fn = "truncate" /\ ret.val # Undefined => Len(ret.val[1]) <= 20
    /\ call.fn = "getSummary" /\ Len(CalledList) = 1 =>
           LET m == CalledList[1].message
           IN  ret.val = SummaryHead(call.args[1], CalledList) \o " " \o Interpolate(m) =>
                   m = Undefined \/ m = Some("") \/ Len(m[1]) < 20

\* C10 as amended: a message of exactly 20 characters is rewritten to its
\* first 17 characters and "..."; the summary shows a message as it is only
\* when it is falsy, or shorter than 20 characters, or 20 characters long
\* and ending in "..." already; no truncated entry is longer than 20
\* characters.
C10_VerbatimUnderLimitOrEllipsis ==
    /\ call.fn = "truncate" /\ msg # Undefined /\ Len(msg[1]) = 20 =>
           ret.val = Some(SubSeq(msg[1], 1, 17) \o "...")
    /\ call.fn = "truncate" /\ ret.val # Undefined => Len(ret.val[1]) <= 20
    /\ call.fn = "getSummary" /\ Len(CalledList) = 1 =>
           LET m == CalledList[1].message
           IN  ret.val = SummaryHead(call.args[1], CalledList) \o " " \o Interpolate(m) <=>
                   \/ m = Undefined
                   \/ m = Some("")
                   \/ Len(m[1]) < 20
                   \/ Len(m[1]) = 20 /\ EndsWith(m[1], "...")

C10_Witness ==
    /\ call.fn = "getSummary"
    /\ Len(CalledList) = 1
    /\ CalledList[1].message = Some("abcdefghijklmnopq...")
    /\ ret.val = "1 failure:  abcdefghijklmnopq..."

====
